---- MODULE Spec2Model ----
(***************************************************************************)
(* State-machine model of src/src/DiseasePrediction.jsx: the CameraView    *)
(* component (camera session, capture, close) and the DiseasePrediction    *)
(* component (image acquisition, prediction request lifecycle, clear).     *)
(* Every event handler and every promise continuation is one atomic step   *)
(* (single-threaded event loop).  The state updates of a click or change   *)
(* handler are rendered within its step.  Those of a promise continuation  *)
(* or a FileReader callback are rendered within its step (React 17) or in  *)
(* a later task, after any number of other steps (React 18): the source    *)
(* does not fix the React version, so both happen.  A render that throws   *)
(* unmounts the whole tree (there is no error boundary).                   *)
(***************************************************************************)
EXTENDS Naturals, Sequences, FiniteSets, Bags, TLC

\* ------------------------------------------------------------------------
\* Bounds of the model
\* ------------------------------------------------------------------------
\* file reads that may be pending at once
MaxPendingReads == 2
\* handlePredict invocations that may be pending at once
MaxInFlight == 2
\* camera sessions (CameraView mounts) in one run
MaxSessions == 1

\* ------------------------------------------------------------------------
\* Values
\* ------------------------------------------------------------------------
\* JavaScript null (useState(null), useRef(null))
Null == [kind |-> "null"]

\* The JavaScript number 0.
Zero == [kind |-> "number", value |-> 0]

\* JavaScript truthiness of the values the component tests (!imageSrc,
\* imageSrc ? .. : .., error && .., predictionResult && ..): null and 0 are
\* falsy, non-empty strings, objects and arrays are truthy.
Truthy(v) == v # Null /\ v # Zero

\* Files the user can pick in the file dialog (accept="image/*").
Files ==
    { [kind |-> "file", name |-> "a.png", type |-> "image/png", bytes |-> "A"],
      [kind |-> "file", name |-> "b.jpg", type |-> "image/jpeg", bytes |-> "B"] }

\* Video frames the camera can deliver at the moment of a capture.
Frames == {"frame1"}

\* Dimensions the video element reports once its metadata is loaded.
VideoSize == [w |-> 640, h |-> 480]

\* FileReader.readAsDataURL(file): "data:<type>;base64,<base64 of the bytes>"
ReadAsDataURL(file) ==
    [kind |-> "dataurl", mime |-> file.type, base64 |-> TRUE, data |-> file.bytes]

\* The string "data:," : what canvas.toDataURL returns for a canvas with
\* zero width or zero height.
EmptyDataURL == [kind |-> "dataurl", mime |-> "", base64 |-> FALSE, data |-> ""]

\* canvas.getContext('2d').drawImage(video, 0, 0): paints the current frame;
\* paints nothing when the video has no frame yet.
DrawImage(hasFrame, frame) == IF hasFrame THEN frame ELSE "blank"

\* canvas.toDataURL('image/jpeg')
ToDataURL(w, h, pixels) ==
    IF w = 0 \/ h = 0
    THEN EmptyDataURL
    ELSE [kind |-> "dataurl", mime |-> "image/jpeg", base64 |-> TRUE, data |-> pixels]

\* (await fetch(dataUrl)).blob(): the decoded bytes with the URL's media type
\* ("data:," has the type text/plain and no bytes).
DataURLToBlob(url) ==
    IF url = Null
    THEN Null
    ELSE [kind |-> "blob",
          type |-> IF url.mime = "" THEN "text/plain" ELSE url.mime,
          bytes |-> url.data]

\* Status codes the prediction service can answer with.
Statuses == {200, 500}

\* apiResponse.ok
ResponseOk(status) == status >= 200 /\ status <= 299

\* Response bodies of the prediction service: two JSON objects of the shape
\* the result view renders (result.prediction, .confidence, .description,
\* .precautions), a JSON object without description and precautions, the
\* JSON texts null, 0 and [], and one body that is not JSON.
EczemaJson ==
    "{\"prediction\":\"Eczema\",\"confidence\":87,\"description\":\"...\",\"precautions\":[\"See a dermatologist\",\"Avoid allergens\"]}"
AcneJson ==
    "{\"prediction\":\"Acne\",\"confidence\":64,\"description\":\"...\",\"precautions\":[\"Keep skin clean\"]}"
PartialJson == "{\"prediction\":\"Eczema\",\"confidence\":87}"
NullJson == "null"
ZeroJson == "0"
ArrayJson == "[]"
NotJson == "<html>Internal Server Error</html>"
Bodies == {EczemaJson, AcneJson, PartialJson, NullJson, ZeroJson, ArrayJson, NotJson}

\* apiResponse.json() resolves for a JSON text and rejects otherwise.
JsonParseable(text) ==
    text \in {EczemaJson, AcneJson, PartialJson, NullJson, ZeroJson, ArrayJson}
\* The value json() resolves with.
JsonParse(text) ==
    CASE text = EczemaJson ->
            [kind |-> "object", prediction |-> "Eczema", confidence |-> 87,
             description |-> "...",
             precautions |-> <<"See a dermatologist", "Avoid allergens">>]
      [] text = AcneJson ->
            [kind |-> "object", prediction |-> "Acne", confidence |-> 64,
             description |-> "...",
             precautions |-> <<"Keep skin clean">>]
      [] text = PartialJson ->
            [kind |-> "object", prediction |-> "Eczema", confidence |-> 87]
      [] text = NullJson -> Null
      [] text = ZeroJson -> Zero
      [] text = ArrayJson -> [kind |-> "array", items |-> <<>>]

\* The render of {predictionResult && <PredictionResult result=.. />}: the
\* view is rendered for a truthy result and evaluates
\* result.precautions.map(..), which throws a TypeError when the result has
\* no precautions array.
RenderThrows(result) ==
    Truthy(result) /\ ~(result.kind = "object" /\ "precautions" \in DOMAIN result)

\* The message of setError in the catch block.
ErrorMessage ==
    [kind |-> "string",
     text |-> "Error predicting disease. Please try again. Make sure the backend server is running."]

\* No MediaStream (useState(null) of CameraView, video.srcObject unset).
NoStream == 0

\* Tracks of the MediaStream that getUserMedia({video: ..}) returns to
\* session s: one video track.
StreamTracks(s) == { [stream |-> s, track |-> "video"] }

\* Value of the history variable `last` after every step but a run of
\* handleClear ("clear").
Other == "other"

RemoveAt(q, i) == [j \in 1..(Len(q) - 1) |-> IF j < i THEN q[j] ELSE q[j + 1]]

VARIABLES
    \* DiseasePrediction state (useState / useRef)
    predictionResult, isLoading, imageSrc, isCameraOpen, error, fileInputValue,
    \* FileReaders whose onload has not fired yet: a bag of the files being read
    pendingReads,
    \* handlePredict invocations suspended at an await, in start order
    inflight,
    \* CameraView: number of mounts so far, the mounted session (0: none),
    \* its stream state, the stream value the effect's cleanup closed over,
    \* the video element, sessions whose getUserMedia is pending
    sessionCount, camSession, stream, effectStream,
    videoSrcObject, videoWidth, videoHeight, gumPending,
    \* whether the video element has a frame to draw (readyState is at least
    \* HAVE_CURRENT_DATA)
    videoHasFrame,
    \* MediaStreamTracks that are live (obtained and not stopped)
    liveTracks,
    \* history: whether the last step was a run of handleClear;
    \* the sessions with getUserMedia pending in which onCapture was called;
    \* while a file read is pending, the image of the user's most recent
    \* acquisition action (a file chosen or a photo captured), Null when the
    \* read of that file failed; Null while no read is pending
    last, capturedPending, latest,
    \* whether the component tree is mounted (it is until a render throws)
    mounted,
    \* the state updates queued and not yet rendered
    queued

vars == <<predictionResult, isLoading, imageSrc, isCameraOpen, error,
          fileInputValue, pendingReads, inflight, sessionCount, camSession,
          stream, effectStream, videoSrcObject, videoWidth, videoHeight,
          videoHasFrame, gumPending, liveTracks, last, capturedPending,
          latest, mounted, queued>>

Init ==
    /\ predictionResult = Null
    /\ isLoading = FALSE
    /\ imageSrc = Null
    /\ isCameraOpen = FALSE
    /\ error = Null
    /\ fileInputValue = ""
    /\ pendingReads = EmptyBag
    /\ inflight = <<>>
    /\ sessionCount = 0
    /\ camSession = 0
    /\ stream = NoStream
    /\ effectStream = NoStream
    /\ videoSrcObject = NoStream
    /\ videoWidth = 0
    /\ videoHeight = 0
    /\ videoHasFrame = FALSE
    /\ gumPending = {}
    /\ liveTracks = {}
    /\ last = Other
    /\ capturedPending = {}
    /\ latest = Null
    /\ mounted = TRUE
    /\ queued = [f \in {} |-> Null]

\* ------------------------------------------------------------------------
\* React state updates and renders
\* ------------------------------------------------------------------------
\* A batch of setState calls: a function from the names of the state
\* variables set to the values given (every setter of the module is called
\* with a value, never with an updater function).
NoUpdates == [f \in {} |-> Null]

\* The batch q followed by the batch u: the later call wins.
Merge(q, u) ==
    [f \in DOMAIN q \cup DOMAIN u |-> IF f \in DOMAIN u THEN u[f] ELSE q[f]]

\* The batch q without the calls for the names in fs.
Without(q, fs) == [f \in DOMAIN q \ fs |-> q[f]]

\* The value of state variable f, now cur, once the batch q is applied.
Val(q, f, cur) == IF f \in DOMAIN q THEN q[f] ELSE cur

\* The state of the two components as last rendered (useState).
Rendered ==
    [predictionResult |-> predictionResult, isLoading |-> isLoading,
     imageSrc |-> imageSrc, error |-> error, isCameraOpen |-> isCameraOpen,
     stream |-> stream]

\* The calls of the batch q that change the state cur: a call with the
\* value the variable already has changes nothing when it is rendered.
Changing(q, cur) == [f \in {g \in DOMAIN q : q[g] # cur[g]} |-> q[f]]

\* What a handler changes outside React state, at once: the value of the
\* file input, the getUserMedia requests pending, the live tracks and the
\* video element's srcObject.  Now: nothing changed.
Now ==
    [fileInputValue |-> fileInputValue, gumPending |-> gumPending,
     liveTracks |-> liveTracks, videoSrcObject |-> videoSrcObject]

\* The effect's cleanup: if (stream) stream.getTracks().forEach(t => t.stop()).
\* The effect has no dependencies, so `stream` here is the value of the render
\* that ran the effect (the mount).
EffectCleanup(tracks, closedOverStream) ==
    IF closedOverStream # NoStream
    THEN tracks \ StreamTracks(closedOverStream)
    ELSE tracks

\* The CameraView unmounts: its effect's cleanup runs, its state and its
\* video element are gone.
CameraViewUnmount(imm) ==
    /\ liveTracks' = EffectCleanup(imm.liveTracks, effectStream)
    /\ camSession' = 0
    /\ stream' = NoStream
    /\ effectStream' = NoStream
    /\ videoSrcObject' = NoStream
    /\ videoWidth' = 0
    /\ videoHeight' = 0
    /\ videoHasFrame' = FALSE

\* A render of DiseasePrediction throws: React unmounts the whole tree, the
\* CameraView included when it is shown; the state of the components, the
\* updates queued and the file input are gone.
RootUnmount(imm) ==
    /\ mounted' = FALSE
    /\ predictionResult' = Null
    /\ isLoading' = FALSE
    /\ imageSrc' = Null
    /\ error' = Null
    /\ isCameraOpen' = FALSE
    /\ fileInputValue' = ""
    /\ queued' = NoUpdates
    /\ gumPending' = imm.gumPending
    /\ IF isCameraOpen
       THEN CameraViewUnmount(imm)
       ELSE /\ liveTracks' = imm.liveTracks
            /\ UNCHANGED <<camSession, stream, effectStream, videoSrcObject,
                           videoWidth, videoHeight, videoHasFrame>>
    /\ UNCHANGED sessionCount

\* The variables a render can change.
renderVars ==
    <<predictionResult, isLoading, imageSrc, error, isCameraOpen, sessionCount,
      camSession, stream, effectStream, videoSrcObject, videoWidth, videoHeight,
      videoHasFrame, gumPending, liveTracks, fileInputValue, mounted, queued>>

\* React renders with the batch `apply` and keeps the batch `rest` queued.
\* {isCameraOpen && <CameraView/>} mounts a CameraView when isCameraOpen
\* becomes true (its first render has stream = null; its effect, whose
\* cleanup closes over that render's stream, calls openCamera, which
\* suspends at await getUserMedia) and unmounts it when isCameraOpen becomes
\* false; {predictionResult && <PredictionResult/>} throws for a result the
\* view cannot render.  On an unmounted tree setState does nothing.
Commit(apply, rest, imm) ==
    IF ~mounted
    THEN /\ fileInputValue' = imm.fileInputValue
         /\ gumPending' = imm.gumPending
         /\ liveTracks' = imm.liveTracks
         /\ videoSrcObject' = imm.videoSrcObject
         /\ queued' = NoUpdates
         /\ UNCHANGED <<predictionResult, isLoading, imageSrc, error, isCameraOpen,
                        sessionCount, camSession, stream, effectStream, videoWidth,
                        videoHeight, videoHasFrame, mounted>>
    ELSE IF RenderThrows(Val(apply, "predictionResult", predictionResult))
    THEN RootUnmount(imm)
    ELSE /\ predictionResult' = Val(apply, "predictionResult", predictionResult)
         /\ isLoading' = Val(apply, "isLoading", isLoading)
         /\ imageSrc' = Val(apply, "imageSrc", imageSrc)
         /\ error' = Val(apply, "error", error)
         /\ isCameraOpen' = Val(apply, "isCameraOpen", isCameraOpen)
         /\ fileInputValue' = imm.fileInputValue
         /\ UNCHANGED mounted
         /\ CASE isCameraOpen /\ ~isCameraOpen' ->
                   /\ CameraViewUnmount(imm)
                   /\ gumPending' = imm.gumPending
                   /\ queued' = Changing(Without(rest, {"stream"}), Rendered')
                   /\ UNCHANGED sessionCount
              [] ~isCameraOpen /\ isCameraOpen' ->
                   /\ sessionCount' = sessionCount + 1
                   /\ camSession' = sessionCount + 1
                   /\ stream' = NoStream
                   /\ effectStream' = stream'
                   /\ videoSrcObject' = NoStream
                   /\ videoWidth' = 0
                   /\ videoHeight' = 0
                   /\ videoHasFrame' = FALSE
                   /\ gumPending' = imm.gumPending \cup {sessionCount + 1}
                   /\ liveTracks' = imm.liveTracks
                   /\ queued' = Changing(rest, Rendered')
              [] OTHER ->
                   /\ stream' = Val(apply, "stream", stream)
                   /\ videoSrcObject' = imm.videoSrcObject
                   /\ gumPending' = imm.gumPending
                   /\ liveTracks' = imm.liveTracks
                   /\ queued' = Changing(rest, Rendered')
                   /\ UNCHANGED <<sessionCount, camSession, effectStream,
                                  videoWidth, videoHeight, videoHasFrame>>

\* The updates of a handler of a click or change event: React renders them
\* before the event ends, on their own; what a promise continuation or a
\* FileReader callback queued stays queued, less the calls these updates
\* come after.
Event(updates, imm) == Commit(updates, Without(queued, DOMAIN updates), imm)

\* The updates of a promise continuation or a FileReader callback: they join
\* the queue, and React renders the queue either before anything else runs
\* or in a later task.
Continuation(updates, imm) ==
    \/ Commit(Merge(queued, updates), NoUpdates, imm)
    \/ Commit(NoUpdates, Merge(queued, updates), imm)

\* The render of the queued updates, in a task of its own.
RenderQueued ==
    /\ DOMAIN queued # {}
    /\ Commit(queued, NoUpdates, Now)
    /\ last' = Other
    /\ UNCHANGED <<pendingReads, inflight, capturedPending, latest>>

\* ------------------------------------------------------------------------
\* DiseasePrediction: file acquisition
\* ------------------------------------------------------------------------
\* handleImageChange with a chosen file: a FileReader is created and
\* readAsDataURL started; no component state changes until onload.  The
\* change event fires only when the input's value changes.
handleImageChange(file) ==
    /\ mounted
    /\ file.name # fileInputValue
    /\ BagCardinality(pendingReads) < MaxPendingReads
    /\ Event(NoUpdates, [Now EXCEPT !.fileInputValue = file.name])
    /\ pendingReads' = pendingReads (+) SetToBag({file})
    /\ latest' = ReadAsDataURL(file)
    /\ last' = Other
    /\ UNCHANGED <<inflight, capturedPending>>

\* handleImageChange with an empty file list (the dialog was dismissed and
\* the selection dropped): the guard e.target.files && e.target.files[0]
\* fails and nothing is read.
handleImageChangeEmpty ==
    /\ mounted
    /\ fileInputValue # ""
    /\ Event(NoUpdates, [Now EXCEPT !.fileInputValue = ""])
    /\ last' = Other
    /\ UNCHANGED <<pendingReads, inflight, capturedPending, latest>>

\* The three setters of reader.onload.
readerOnload(result) ==
    [imageSrc |-> result, predictionResult |-> Null, error |-> Null]

\* reader.onload fires for a pending read of `file`.
ReaderLoad(file) ==
    /\ BagIn(file, pendingReads)
    /\ pendingReads' = pendingReads (-) SetToBag({file})
    /\ Continuation(readerOnload(ReadAsDataURL(file)), Now)
    /\ latest' = IF BagCardinality(pendingReads) = 1 THEN Null ELSE latest
    /\ last' = Other
    /\ UNCHANGED <<inflight, capturedPending>>

\* A pending read of `file` fails: the reader has no onerror handler, so the
\* component never hears of it.
ReaderError(file) ==
    /\ BagIn(file, pendingReads)
    /\ pendingReads' = pendingReads (-) SetToBag({file})
    /\ latest' = IF BagCardinality(pendingReads) = 1 \/ latest = ReadAsDataURL(file)
                  THEN Null ELSE latest
    /\ last' = Other
    /\ UNCHANGED <<renderVars, inflight, capturedPending>>

\* handleCameraCapture(imageData)
handleCameraCapture(imageData) ==
    [imageSrc |-> imageData, predictionResult |-> Null, error |-> Null]

\* ------------------------------------------------------------------------
\* DiseasePrediction: prediction request
\* ------------------------------------------------------------------------
\* Variant of PredictEnabled for disabled={!imageSrc}.
PredictEnabledWhileLoading == Truthy(imageSrc)

\* The Predict button accepts clicks: disabled={isLoading || !imageSrc}.
PredictEnabled == ~(isLoading \/ ~Truthy(imageSrc))

\* A handlePredict invocation suspended at its first await, fetch(imageSrc).
NewRequest(src) == [payload |-> src, stage |-> "dataFetch", blob |-> Null]

\* Variant of handlePredict without `if (!imageSrc) return`.
handlePredictUnguarded ==
    [returns |-> FALSE,
     updates |-> [isLoading |-> TRUE, predictionResult |-> Null, error |-> Null],
     request |-> NewRequest(imageSrc)]

\* Variant of handlePredict without setPredictionResult(null).
handlePredictKeepsResult ==
    [returns |-> ~Truthy(imageSrc),
     updates |-> [isLoading |-> TRUE, error |-> Null],
     request |-> NewRequest(imageSrc)]

\* Variant of handlePredict without setError(null).
handlePredictKeepsError ==
    [returns |-> ~Truthy(imageSrc),
     updates |-> [isLoading |-> TRUE, predictionResult |-> Null],
     request |-> NewRequest(imageSrc)]

\* handlePredict up to its first await: whether it returns at once
\* (if (!imageSrc) return), the three setters, and the request it starts
\* with the imageSrc of the render the handler belongs to.
handlePredict ==
    [returns |-> ~Truthy(imageSrc),
     updates |-> [isLoading |-> TRUE, predictionResult |-> Null, error |-> Null],
     request |-> NewRequest(imageSrc)]

\* A call of handlePredict.
CallPredict ==
    IF handlePredict.returns
    THEN /\ last' = Other
         /\ UNCHANGED <<renderVars, inflight>>
    ELSE /\ Len(inflight) < MaxInFlight
         /\ inflight' = Append(inflight, handlePredict.request)
         /\ Event(handlePredict.updates, Now)
         /\ last' = Other

\* The user clicks the Predict button.
ClickPredict ==
    /\ mounted
    /\ PredictEnabled
    /\ CallPredict
    /\ UNCHANGED <<pendingReads, capturedPending, latest>>

\* handlePredict called while no image is held (the button is disabled then,
\* so only a direct call of the handler gets here).
CallPredictWithoutImage ==
    /\ mounted
    /\ ~Truthy(imageSrc)
    /\ CallPredict
    /\ UNCHANGED <<pendingReads, capturedPending, latest>>

\* setPredictionResult(data) followed by the finally block.
OnPredictSuccess(data) == [predictionResult |-> data, isLoading |-> FALSE]

\* Variant of OnPredictFailure with setError(err.message).
OnPredictFailureRawMessage(err) ==
    [error |-> [kind |-> "string", text |-> err], isLoading |-> FALSE]

\* The catch block followed by the finally block; err is the caught value.
OnPredictFailure(err) == [error |-> ErrorMessage, isLoading |-> FALSE]

\* await fetch(imageSrc) resolves; response.blob() is awaited next.
DataFetchResolve(i) ==
    /\ i \in 1..Len(inflight)
    /\ inflight[i].stage = "dataFetch"
    /\ inflight' = [inflight EXCEPT ![i].stage = "blob"]
    /\ last' = Other
    /\ UNCHANGED <<renderVars, pendingReads, capturedPending, latest>>

\* await response.blob() resolves; the form data is built and the POST sent.
BlobResolve(i) ==
    /\ i \in 1..Len(inflight)
    /\ inflight[i].stage = "blob"
    /\ inflight' = [inflight EXCEPT ![i].stage = "post",
                                    ![i].blob = DataURLToBlob(inflight[i].payload)]
    /\ last' = Other
    /\ UNCHANGED <<renderVars, pendingReads, capturedPending, latest>>

\* The POST resolves with a response (its status line and headers): a non-ok
\* status throws into the catch block, an ok status goes on to await
\* apiResponse.json(), which reads the body.
PostResolve(i, status) ==
    /\ i \in 1..Len(inflight)
    /\ inflight[i].stage = "post"
    /\ last' = Other
    /\ IF ResponseOk(status)
       THEN /\ inflight' = [inflight EXCEPT ![i].stage = "json"]
            /\ UNCHANGED renderVars
       ELSE /\ inflight' = RemoveAt(inflight, i)
            /\ Continuation(OnPredictFailure("Server returned error status"), Now)
    /\ UNCHANGED <<pendingReads, capturedPending, latest>>

\* await apiResponse.json() resolves: the body was JSON text.
JsonResolve(i, body) ==
    /\ i \in 1..Len(inflight)
    /\ inflight[i].stage = "json"
    /\ JsonParseable(body)
    /\ inflight' = RemoveAt(inflight, i)
    /\ Continuation(OnPredictSuccess(JsonParse(body)), Now)
    /\ last' = Other
    /\ UNCHANGED <<pendingReads, capturedPending, latest>>

\* An awaited promise rejects: the data-URL fetch, blob(), the POST (network
\* error), or json() (the body is not JSON, or the connection broke).
AwaitReject(i) ==
    /\ i \in 1..Len(inflight)
    /\ inflight[i].stage \in {"dataFetch", "blob", "post", "json"}
    /\ inflight' = RemoveAt(inflight, i)
    /\ Continuation(OnPredictFailure(inflight[i].stage), Now)
    /\ last' = Other
    /\ UNCHANGED <<pendingReads, capturedPending, latest>>

\* ------------------------------------------------------------------------
\* DiseasePrediction: clear
\* ------------------------------------------------------------------------
\* Variant of handleClear without the reset of the file input.
handleClearKeepsFileInput ==
    [updates |-> [imageSrc |-> Null, predictionResult |-> Null, error |-> Null],
     fileInputValue |-> fileInputValue]

\* Variant of handleClear in two stages: a present result or error is
\* dismissed first, the image is removed by the next call.
handleClearStaged ==
    IF Truthy(predictionResult) \/ Truthy(error)
    THEN [updates |-> [predictionResult |-> Null, error |-> Null],
          fileInputValue |-> fileInputValue]
    ELSE [updates |-> [imageSrc |-> Null, predictionResult |-> Null, error |-> Null],
          fileInputValue |-> ""]

\* handleClear: the three setters, and the value it gives the file input
\* (fileInputRef.current is the file input, which is always rendered).
handleClear ==
    [updates |-> [imageSrc |-> Null, predictionResult |-> Null, error |-> Null],
     fileInputValue |-> ""]

\* A call of handleClear.
CallClear ==
    /\ last' = "clear"
    /\ Event(handleClear.updates,
             [Now EXCEPT !.fileInputValue = handleClear.fileInputValue])
    /\ UNCHANGED <<pendingReads, inflight, capturedPending, latest>>

\* The clear button is rendered only while an image is held.
ClickClear ==
    /\ mounted
    /\ Truthy(imageSrc)
    /\ CallClear

\* handleClear called while no image is held (the clear button is not
\* rendered then, so only a direct call of the handler gets here).
CallClearWithoutImage ==
    /\ mounted
    /\ ~Truthy(imageSrc)
    /\ CallClear

\* ------------------------------------------------------------------------
\* CameraView
\* ------------------------------------------------------------------------
\* onClose={() => setIsCameraOpen(false)}
onClose == [isCameraOpen |-> FALSE]

\* "Use Camera": setIsCameraOpen(true).  The button is rendered whether or
\* not the camera view is shown.
OpenCamera ==
    /\ mounted
    /\ isCameraOpen \/ sessionCount < MaxSessions
    /\ Event([isCameraOpen |-> TRUE], Now)
    /\ last' = Other
    /\ UNCHANGED <<pendingReads, inflight, capturedPending, latest>>

\* getUserMedia of session s resolves with a MediaStream whose tracks are
\* live.  setStream and videoRef.current.srcObject take effect only when the
\* CameraView of session s is still mounted (videoRef.current is null after
\* the unmount).
GetUserMediaResolve(s) ==
    /\ s \in gumPending
    /\ Continuation(IF camSession = s THEN [stream |-> s] ELSE NoUpdates,
                    [Now EXCEPT !.gumPending = gumPending \ {s},
                                !.liveTracks = liveTracks \cup StreamTracks(s),
                                !.videoSrcObject =
                                    IF camSession = s THEN s ELSE videoSrcObject])
    /\ capturedPending' = capturedPending \ {s}
    /\ last' = Other
    /\ UNCHANGED <<pendingReads, inflight, latest>>

\* getUserMedia of session s rejects: console.error, alert, onClose().
GetUserMediaReject(s) ==
    /\ s \in gumPending
    /\ Continuation(onClose, [Now EXCEPT !.gumPending = gumPending \ {s}])
    /\ capturedPending' = capturedPending \ {s}
    /\ last' = Other
    /\ UNCHANGED <<pendingReads, inflight, latest>>

\* The video element has loaded the stream's metadata: it reports the
\* video's dimensions and has no frame to draw yet.
VideoLoadedMetadata ==
    /\ isCameraOpen
    /\ videoSrcObject # NoStream
    /\ videoWidth = 0
    /\ videoWidth' = VideoSize.w
    /\ videoHeight' = VideoSize.h
    /\ last' = Other
    /\ UNCHANGED <<predictionResult, isLoading, imageSrc, error, isCameraOpen,
                   sessionCount, camSession, stream, effectStream, videoSrcObject,
                   videoHasFrame, gumPending, liveTracks, fileInputValue, mounted,
                   queued, pendingReads, inflight, capturedPending, latest>>

\* The video element has received the first frame of the stream and shows
\* frames from now on.
VideoLoadedData ==
    /\ isCameraOpen
    /\ videoWidth > 0
    /\ ~videoHasFrame
    /\ videoHasFrame' = TRUE
    /\ last' = Other
    /\ UNCHANGED <<predictionResult, isLoading, imageSrc, error, isCameraOpen,
                   sessionCount, camSession, stream, effectStream, videoSrcObject,
                   videoWidth, videoHeight, gumPending, liveTracks, fileInputValue,
                   mounted, queued, pendingReads, inflight, capturedPending, latest>>

\* What handleCapture passes to onCapture: a canvas of the video's size, the
\* current frame drawn on it when the video has one, encoded as JPEG.
CapturedImage(frame) ==
    ToDataURL(videoWidth, videoHeight, DrawImage(videoHasFrame, frame))

\* "Capture Photo": handleCapture; `frame` is what the camera delivers at
\* that moment.
handleCapture(frame) ==
    /\ isCameraOpen
    /\ Event(Merge(handleCameraCapture(CapturedImage(frame)), onClose), Now)
    /\ capturedPending' = capturedPending \cup ({camSession} \cap gumPending)
    /\ latest' = IF BagCardinality(pendingReads) = 0 THEN Null
                  ELSE CapturedImage(frame)
    /\ last' = Other
    /\ UNCHANGED <<pendingReads, inflight>>

\* "Close Camera": onClose.
CloseCamera ==
    /\ isCameraOpen
    /\ Event(onClose, Now)
    /\ last' = Other
    /\ UNCHANGED <<pendingReads, inflight, capturedPending, latest>>

\* ------------------------------------------------------------------------
\* Specification
\* ------------------------------------------------------------------------
\* A suspended handlePredict resumes: one of its awaits settles.
RequestSettles ==
    \E i \in 1..Len(inflight) :
        \/ DataFetchResolve(i)
        \/ BlobResolve(i)
        \/ \E status \in Statuses : PostResolve(i, status)
        \/ \E body \in Bodies : JsonResolve(i, body)
        \/ AwaitReject(i)

Next ==
    \/ \E file \in Files : handleImageChange(file)
    \/ handleImageChangeEmpty
    \/ \E file \in Files : ReaderLoad(file)
    \/ \E file \in Files : ReaderError(file)
    \/ ClickPredict
    \/ CallPredictWithoutImage
    \/ RequestSettles
    \/ ClickClear
    \/ CallClearWithoutImage
    \/ OpenCamera
    \/ \E s \in gumPending : GetUserMediaResolve(s)
    \/ \E s \in gumPending : GetUserMediaReject(s)
    \/ VideoLoadedMetadata
    \/ VideoLoadedData
    \/ \E frame \in Frames : handleCapture(frame)
    \/ CloseCamera
    \/ RenderQueued

Spec == Init /\ [][Next]_vars

\* Every await of a started request eventually settles, and React renders
\* the updates it has queued.
FairSpec == Spec /\ WF_vars(RequestSettles) /\ WF_vars(RenderQueued)

\* ------------------------------------------------------------------------
\* Properties
\* ------------------------------------------------------------------------
\* "The step leaves state variable f at v": f has the value v once React has
\* rendered what is queued when the step ends (at once, when the step
\* renders its updates itself).

\* The step is the continuation of request i that ends in the catch block:
\* an await rejected, or the POST answered with a non-success status.
FailedCompletion(i) ==
    \/ AwaitReject(i)
    \/ \E status \in Statuses \ (200..299) : PostResolve(i, status)

\* C1: whenever the camera view is closed, every track of every media stream
\* obtained from getUserMedia has been stopped (no track is live).
C1_ClosedCameraHoldsNoLiveTrack == ~isCameraOpen => liveTracks = {}

\* C2: whenever a prediction result or an error is present, it was produced
\* by a request whose payload is the image currently held.  Checked at the
\* step that completes a request: every step that sets the image also clears
\* result and error, so a result or an error that belongs to another image
\* does so from the step that sets it.
C2_NoStaleResult ==
    [][\A i \in 1..Len(inflight) :
          ((FailedCompletion(i) \/ \E body \in Bodies : JsonResolve(i, body))
              /\ \/ Truthy(Val(queued', "predictionResult", predictionResult'))
                 \/ Truthy(Val(queued', "error", error')))
          => inflight[i].payload = Val(queued', "imageSrc", imageSrc')]_vars

\* C3: at most one handlePredict invocation is between setIsLoading(true) and
\* its finally block at any time.
C3_AtMostOneInFlight == Len(inflight) <= 1
C3_Witness == Len(inflight) = 1 /\ isLoading /\ Truthy(imageSrc)

\* C4: the step of clear() leaves the component Idle (not Loading; image,
\* result and error absent), and no result or error becomes present again
\* before a new image is acquired and predict() started; in particular none
\* is present while no image is held.
C4_ClearResetsToIdle ==
    /\ [][ClickClear =>
            (~isLoading' /\ imageSrc' = Null /\ predictionResult' = Null /\ error' = Null)]_vars
    /\ [](imageSrc = Null => (~Truthy(predictionResult) /\ ~Truthy(error)))

\* C5: the step in which a file read completes or a camera capture is
\* delivered makes the held image exactly the new data URI and leaves result
\* and error absent.
C5_AcquisitionClearsOutcome ==
    [][/\ \A file \in Files :
             ReaderLoad(file) =>
                 /\ Val(queued', "imageSrc", imageSrc') = ReadAsDataURL(file)
                 /\ Val(queued', "predictionResult", predictionResult') = Null
                 /\ Val(queued', "error", error') = Null
       /\ \A frame \in Frames :
             handleCapture(frame) =>
                 /\ imageSrc' = CapturedImage(frame)
                 /\ predictionResult' = Null /\ error' = Null]_vars

\* C6: the step that completes a request with a success status and a JSON
\* body leaves isLoading false, the result equal to the parsed body and error
\* absent.
C6_SuccessPostcondition ==
    [][\A i \in 1..Len(inflight), body \in Bodies :
          JsonResolve(i, body) =>
              /\ ~Val(queued', "isLoading", isLoading')
              /\ Val(queued', "predictionResult", predictionResult') = JsonParse(body)
              /\ body = EczemaJson =>
                    /\ Val(queued', "predictionResult", predictionResult').prediction = "Eczema"
                    /\ Val(queued', "predictionResult", predictionResult').confidence = 87
              /\ Val(queued', "error", error') = Null]_vars

\* C7: the step that completes a request by a failure of any awaited step or
\* a non-success status leaves isLoading false, error equal to the one fixed
\* non-empty message and the result absent.
C7_FailurePostcondition ==
    [][Len(inflight') < Len(inflight) =>
          \A i \in 1..Len(inflight) :
              FailedCompletion(i) =>
                  /\ ~Val(queued', "isLoading", isLoading')
                  /\ Val(queued', "error", error') = ErrorMessage
                  /\ ErrorMessage.text # ""
                  /\ Val(queued', "predictionResult", predictionResult') = Null]_vars
C7_Witness ==
    ~isLoading /\ inflight = <<>> /\ error = ErrorMessage /\ predictionResult = Null

\* C8: provided its awaits settle, every request that set isLoading returns
\* it to false, and the step that completes a request leaves exactly one of
\* result and error present.
C8_LoadingAlwaysEnds ==
    /\ isLoading ~> ~isLoading
    /\ [][Len(inflight') < Len(inflight) =>
            (Truthy(Val(queued', "predictionResult", predictionResult'))
                # Truthy(Val(queued', "error", error')))]_vars

\* C9: handlePredict called with no image held changes none of isLoading,
\* result, error and image and starts no request.
C9_PredictWithoutImageIsNoop ==
    [][(~Truthy(imageSrc) /\ (ClickPredict \/ CallPredictWithoutImage)) =>
          UNCHANGED <<isLoading, predictionResult, error, imageSrc, inflight>>]_vars
C9_Witness ==
    /\ imageSrc = Null /\ BagCardinality(pendingReads) > 0
    /\ ENABLED (CallPredictWithoutImage /\ UNCHANGED vars)

\* C10: the step of a capture, whenever the capture control is offered, hands
\* the acquisition callback a non-empty image, the snapshot of a video frame,
\* and closes the view.
C10_CaptureDeliversImage ==
    [][\A frame \in Frames :
          handleCapture(frame) =>
              /\ CapturedImage(frame) # EmptyDataURL
              /\ CapturedImage(frame).data \in Frames
              /\ imageSrc' = CapturedImage(frame)
              /\ ~isCameraOpen']_vars

\* C11: the step in which a session's request for the video device is
\* rejected raises the alert, leaves the camera view closed and no media
\* track live, and the acquisition callback was not invoked in that session.
C11_DenialFailsClosed ==
    [][\A s \in gumPending :
          GetUserMediaReject(s) =>
              /\ ~Val(queued', "isCameraOpen", isCameraOpen')
              /\ s \notin capturedPending
              /\ liveTracks' = {}]_vars

\* C12: a session whose view has been closed never afterwards holds a live
\* media stream: every live track belongs to the session whose view is open;
\* and each opening of the camera creates a fresh session, without a stream.
C12_ClosedSessionHoldsNoStream ==
    /\ [](\A t \in liveTracks : isCameraOpen /\ t.stream = camSession)
    /\ [][(OpenCamera /\ ~isCameraOpen) =>
            (camSession' \notin 1..sessionCount /\ stream' = NoStream)]_vars

\* C13: from every state, with or without an image, result or error, the
\* step of clear() leaves image, result and error absent and the file input
\* empty.
C13_ClearPostcondition ==
    [][(ClickClear \/ CallClearWithoutImage) =>
          /\ imageSrc' = Null
          /\ predictionResult' = Null
          /\ error' = Null
          /\ fileInputValue' = ""]_vars
C13_Witness ==
    /\ last = "clear" /\ isLoading
    /\ imageSrc = Null /\ predictionResult = Null /\ error = Null
    /\ fileInputValue = ""

\* C14: clear() is idempotent: a clear() that directly follows a clear()
\* changes nothing of the component state (image, result, error, isLoading,
\* camera-open flag, file input value).
C14_ClearIdempotent ==
    [][(last = "clear" /\ (ClickClear \/ CallClearWithoutImage)) =>
          UNCHANGED <<imageSrc, predictionResult, error, isLoading, isCameraOpen,
                      fileInputValue>>]_vars
C14_Witness ==
    /\ last = "clear" /\ ~isLoading /\ isCameraOpen
    /\ imageSrc = Null /\ BagCardinality(pendingReads) > 0

\* C15: while isLoading is true, neither a result nor an error is present.
C15_NoOutcomeWhileLoading ==
    isLoading => (~Truthy(predictionResult) /\ ~Truthy(error))
C15_Witness ==
    /\ isLoading /\ Len(inflight) = 1 /\ inflight[1].stage = "json"
    /\ imageSrc = Null
    /\ ~Truthy(predictionResult) /\ ~Truthy(error)

\* C16: a result and an error are never both present.
C16_ResultAndErrorExclusive == ~(Truthy(predictionResult) /\ Truthy(error))
C16_Witness ==
    /\ Truthy(predictionResult) /\ ~Truthy(error) /\ ~isLoading
    /\ Truthy(imageSrc)

\* C17: once no file read is pending, the image held is the image of the
\* user's most recent acquisition action, whatever the order in which
\* overlapping reads completed and whatever was done while a read was pending.
\* Checked at the step that completes the last pending read: with no read
\* pending, a capture installs its own image at once and a file chosen starts
\* a new read.
C17_LastAcquisitionWins ==
    [][\A file \in Files :
          (/\ \/ ReaderLoad(file)
              \/ ReaderError(file) /\ latest # ReadAsDataURL(file)
           /\ BagCardinality(pendingReads') = 0
           /\ Truthy(latest) /\ Truthy(Val(queued', "imageSrc", imageSrc')))
          => Val(queued', "imageSrc", imageSrc') = latest]_vars

====
